---- MODULE Spec2Model ----
(***************************************************************************)
(* A model of DayGantt.py: Owner, Event and Instance objects, the          *)
(* insertion operation Event.AddInstance, iteration over an Event, the     *)
(* comparison operators and the row ordering computed by PlotEvents.       *)
(*                                                                         *)
(* Conventions                                                             *)
(*   - a Python str is the tuple of its code points, compared as Python    *)
(*     compares strings (lexicographically, a proper prefix first);        *)
(*   - a datetime.datetime is an integer count of clock ticks since        *)
(*     midnight of day 0: day * TicksPerDay + time of day;                 *)
(*   - an optional value is <<>> (None) or <<v>>;                          *)
(*   - an object reference to an (immutable) Owner is the Owner's record;  *)
(*     object identity is identity of the id drawn from Owner.counter.     *)
(***************************************************************************)
EXTENDS Integers, Sequences, FiniteSets, TLC

VARIABLES
    owners,         \* every Owner constructed so far, in construction order
    events,         \* every Event constructed so far, in construction order
    ownerCounter,   \* Owner.counter  (itertools.count)
    colourCycle,    \* position of Owner.colours (itertools.cycle)
    eventCounter,   \* Event.counter  (itertools.count)
    today,          \* the date datetime.datetime.today() returns now
    log,            \* the logging records emitted by the latest AddInstance call
    rows,           \* the sorted list PlotEvents builds (<<>> before the call)
    lastAppended,   \* history: per Event, start of the Instance appended last
    refDate         \* history: the date the latest bare time was combined with
                    \* (the history is recorded under SpecHistory only)

vars == <<owners, events, ownerCounter, colourCycle, eventCounter, today, log,
          rows, lastAppended, refDate>>

----------------------------------------------------------------------------
(* Bounds of the exploration *)

MaxSched == 3          \* AddInstance is explored while a schedule is shorter
MaxDay == 1            \* the clock is explored over days 0..MaxDay
MaxCreateOwners == 7   \* Owners constructed under SpecCreate
MaxCreateEvents == 2   \* Events constructed under SpecCreate
MaxCmpOwners == 2      \* Owners drawn under SpecOrder
MaxCmpEvents == 2      \* Events drawn under SpecOrder
MaxRowOwners == 3      \* Owners drawn under SpecRows
MaxRowEvents == 3      \* Events drawn under SpecRows

Tods == {0, 1}                       \* times of day given as datetime.time
TicksPerDay == Cardinality(Tods)
Timestamps == 0 .. ((MaxDay + 1) * TicksPerDay - 1)
None == <<>>
Some(v) == <<v>>
Durations == {None, Some(-1), Some(0), Some(1)}   \* None or a timedelta

Str_A == <<65>>
Str_B == <<66>>
Str_AB == <<65, 66>>
Snowy == <<83, 110, 111, 119, 121>>
Bury == <<66, 117, 114, 121>>

----------------------------------------------------------------------------
(* Python values and built-ins *)

Min2(a, b) == IF a < b THEN a ELSE b

\* str.__lt__
StrLt(a, b) ==
    \E k \in 1 .. (Min2(Len(a), Len(b)) + 1) :
        /\ \A i \in 1 .. (k - 1) : a[i] = b[i]
        /\ \/ k > Len(a) /\ k <= Len(b)
           \/ k <= Len(a) /\ k <= Len(b) /\ a[k] < b[k]

\* bool(duration): None and timedelta(0) are falsy
Truthy(duration) == duration # None /\ duration[1] # 0

\* the three shapes of the argument `time` of AddInstance
TimeOfDay(tod) == [type |-> "time", val |-> tod]
Datetime(ts) == [type |-> "datetime", val |-> ts]
NotATime == [type |-> "str", val |-> 0]

\* datetime.datetime.combine(date, time)
Combine(date, time) == Datetime(date * TicksPerDay + time.val)

----------------------------------------------------------------------------
(* class Instance *)

\* Instance.__init__: the value of self.end
InstanceEnd(time, duration) ==
    IF Truthy(duration) THEN time + duration[1] ELSE time

\* Instance.__init__
Instance(time, duration) ==
    [start |-> time, duration |-> duration, end |-> InstanceEnd(time, duration)]

\* Instance.__lt__
InstanceLt(self, other) == self.start < other.start

----------------------------------------------------------------------------
(* class Owner *)

Palette == <<"red", "yellow", "green", "blue", "cyan", "magenta">>
DefaultRank == 100

\* next(Owner.counter)
NextOwnerIdShared == ownerCounter + eventCounter
NextOwnerId == ownerCounter

\* next(Owner.colours)
NextColour == Palette[colourCycle + 1]

\* Owner.__lt__
OwnerLt(self, other) ==
    IF self.rank = other.rank
    THEN StrLt(self.name, other.name)
    ELSE self.rank < other.rank

----------------------------------------------------------------------------
(* class Event *)

\* next(Event.counter)
NextEventId == eventCounter

\* Event.__lt__, with the schedule taken into account only after the owners
EventLtOwnerFirst(self, other) ==
    IF self.owner = other.owner
    THEN StrLt(self.description, other.description)
    ELSE OwnerLt(self.owner, other.owner)

\* Event.__lt__
EventLt(self, other) ==
    IF self.schedule # <<>> /\ other.schedule # <<>>
    THEN IF self.schedule[1].start = other.schedule[1].start
         THEN IF self.owner = other.owner
              THEN StrLt(self.description, other.description)
              ELSE OwnerLt(self.owner, other.owner)
         ELSE self.schedule[1].start < other.schedule[1].start
    ELSE OwnerLt(self.owner, other.owner)

----------------------------------------------------------------------------
(* x < y, list.sort() and sorted() *)

\* x < y dispatches on the class of x
Less(x, y) ==
    IF "start" \in DOMAIN x THEN InstanceLt(x, y)
    ELSE IF "schedule" \in DOMAIN x THEN EventLt(x, y)
    ELSE OwnerLt(x, y)

RECURSIVE CountDescending(_, _)
\* length of the strictly descending run that starts the list
CountDescending(s, n) ==
    IF n < Len(s) /\ Less(s[n + 1], s[n]) THEN CountDescending(s, n + 1) ELSE n

RECURSIVE CountAscending(_, _)
\* length of the non-descending run that starts the list
CountAscending(s, n) ==
    IF n < Len(s) /\ ~Less(s[n + 1], s[n]) THEN CountAscending(s, n + 1) ELSE n

RECURSIVE BinarySearch(_, _, _, _)
\* where pivot goes in the sorted prefix: after the entries it is not less than
BinarySearch(s, pivot, l, r) ==
    IF l >= r THEN l
    ELSE LET p == l + ((r - l) \div 2)
         IN  IF Less(pivot, s[p + 1])
             THEN BinarySearch(s, pivot, l, p)
             ELSE BinarySearch(s, pivot, p + 1, r)

RECURSIVE BinarySort(_, _)
\* binary insertion sort of s, whose first `sorted` entries are in order
BinarySort(s, sorted) ==
    IF sorted >= Len(s) THEN s
    ELSE LET pivot == s[sorted + 1]
             l == BinarySearch(s, pivot, 0, sorted)
             t == [i \in 1 .. Len(s) |->
                      IF i <= l THEN s[i]
                      ELSE IF i = l + 1 THEN pivot
                      ELSE IF i <= sorted + 1 THEN s[i - 1]
                      ELSE s[i]]
         IN  BinarySort(t, sorted + 1)

\* a list.sort() that leaves the list as it is
NoSort(s) == s

\* list.sort() / sorted() on a short list: the run that starts the list is
\* found (and reversed when descending), the rest is inserted into it
ListSort(s) ==
    IF Len(s) < 2 THEN s
    ELSE LET desc == Less(s[2], s[1])
             n == IF desc THEN CountDescending(s, 2) ELSE CountAscending(s, 2)
             run == [i \in 1 .. Len(s) |->
                        IF desc /\ i <= n THEN s[n + 1 - i] ELSE s[i]]
         IN  BinarySort(run, n)

\* Event.__iter__: the Instances the generator yields, in order
Iter(self) == ListSort(self.schedule)

----------------------------------------------------------------------------
(* Event.AddInstance *)

Warning(msg) == [level |-> "WARNING", msg |-> msg]
Error(msg) == [level |-> "ERROR", msg |-> msg]
OutOfOrderWarning == Warning("Inserting event when last entry is later")
DuplicateWarning == Warning("Event already has an entry. Ignoring")
ScheduleTypeError == Error("Schedule entries must be of type datetime.datetime")

\* type(time) is datetime.time
IsTime(time) == time.type = "time"

\* a type test that lets every value through
IsAnything(time) == TRUE

\* type(time) is datetime.datetime
IsDatetime(time) == time.type = "datetime"

\* the value of `time` after the first if of AddInstance
Normalise(time) == IF IsTime(time) THEN Combine(today, time) ELSE time

\* the out-of-order test taken against the first entry of the schedule
OutOfOrderFirst(schedule, time) ==
    schedule # <<>> /\ time < schedule[1].start

\* self.schedule and time < self.schedule[-1].start
OutOfOrder(schedule, time) ==
    schedule # <<>> /\ time < schedule[Len(schedule)].start

\* a duplicate test that looks at the last entry of the schedule only
IsDuplicateOfLast(schedule, time) ==
    schedule # <<>> /\ time = schedule[Len(schedule)].start

\* time in [i.start for i in self.schedule]
IsDuplicate(schedule, time) ==
    time \in {schedule[i].start : i \in DOMAIN schedule}

\* a schedule in which a duplicate replaces the Instance stored for its time
ScheduleAfterReplacing(schedule, time, duration) ==
    IF IsDuplicate(schedule, time)
    THEN [i \in DOMAIN schedule |->
             IF schedule[i].start = time THEN Instance(time, duration)
             ELSE schedule[i]]
    ELSE ListSort(Append(schedule, Instance(time, duration)))

\* self.schedule once the duplicate test and its else branch have run
ScheduleAfter(schedule, time, duration) ==
    IF IsDuplicate(schedule, time)
    THEN schedule
    ELSE ListSort(Append(schedule, Instance(time, duration)))

\* the logging calls of one AddInstance call on a datetime, in order
Diagnostics(schedule, time) ==
    (IF OutOfOrder(schedule, time) THEN <<OutOfOrderWarning>> ELSE <<>>)
    \o (IF IsDuplicate(schedule, time) THEN <<DuplicateWarning>> ELSE <<>>)

\* events[e].AddInstance(time, duration)
AddInstance(e, time, duration) ==
    LET self == events[e]
        t == Normalise(time)
    IN  /\ UNCHANGED <<owners, ownerCounter, colourCycle, eventCounter, today,
                       rows>>
        /\ IF IsDatetime(t)
           THEN /\ log' = Diagnostics(self.schedule, t.val)
                /\ events' = [events EXCEPT ![e].schedule =
                                 ScheduleAfter(self.schedule, t.val, duration)]
           ELSE /\ log' = <<ScheduleTypeError>>
                /\ UNCHANGED events

\* the history of a call events[e].AddInstance(time, ..): the date a bare
\* time is combined with, and the start of the Instance appended
RecordCall(e, time) ==
    LET t == Normalise(time)
    IN  /\ refDate' = IF IsTime(time) THEN Some(today) ELSE refDate
        /\ lastAppended' =
               IF IsDatetime(t) /\ ~IsDuplicate(events[e].schedule, t.val)
               THEN [lastAppended EXCEPT ![e] = Some(t.val)]
               ELSE lastAppended

\* the history is not recorded
NoRecord == UNCHANGED <<lastAppended, refDate>>

----------------------------------------------------------------------------
(* Constructors, the clock and PlotEvents *)

\* Owner(name, rank)
NewOwner(name, rank) ==
    /\ owners' = Append(owners, [id |-> NextOwnerId, name |-> name,
                                 rank |-> rank, colour |-> NextColour])
    /\ ownerCounter' = ownerCounter + 1
    /\ colourCycle' = (colourCycle + 1) % Len(Palette)
    /\ UNCHANGED <<events, eventCounter, today, log, rows, lastAppended,
                   refDate>>

\* Event(description, owner)
NewEvent(description, owner) ==
    /\ events' = Append(events, [id |-> NextEventId,
                                 description |-> description,
                                 owner |-> owner, schedule |-> <<>>])
    /\ eventCounter' = eventCounter + 1
    /\ lastAppended' = Append(lastAppended, None)
    /\ UNCHANGED <<owners, ownerCounter, colourCycle, today, log, rows,
                   refDate>>

\* midnight passes: datetime.datetime.today() returns the next date
Midnight ==
    /\ today' = today + 1
    /\ UNCHANGED <<owners, events, ownerCounter, colourCycle, eventCounter,
                   log, rows, lastAppended, refDate>>

\* PlotEvents(events, filename, title): events = sorted(events)
PlotEvents ==
    /\ rows' = ListSort(events)
    /\ UNCHANGED <<owners, events, ownerCounter, colourCycle, eventCounter,
                   today, log, lastAppended, refDate>>

----------------------------------------------------------------------------
(* Spec: one Event and the calls made on it.                               *)
(* Init is the state after                                                  *)
(*     snowy = Owner('Snowy'); event = Event('Bury', snowy)                 *)

Init ==
    /\ owners = <<[id |-> 0, name |-> Snowy, rank |-> DefaultRank,
                   colour |-> Palette[1]]>>
    /\ events = <<[id |-> 0, description |-> Bury, owner |-> owners[1],
                   schedule |-> <<>>]>>
    /\ ownerCounter = 1
    /\ colourCycle = 1
    /\ eventCounter = 1
    /\ today = 0
    /\ log = <<>>
    /\ rows = <<>>
    /\ lastAppended = <<None>>
    /\ refDate = None

\* AddInstance(datetime.time(..), duration)
AddTime ==
    \E e \in DOMAIN events, tod \in Tods, d \in Durations :
        /\ Len(events[e].schedule) < MaxSched
        /\ AddInstance(e, TimeOfDay(tod), d)
        /\ NoRecord

\* AddInstance(datetime.datetime(..), duration)
AddDatetime ==
    \E e \in DOMAIN events, ts \in Timestamps, d \in Durations :
        /\ Len(events[e].schedule) < MaxSched
        /\ AddInstance(e, Datetime(ts), d)
        /\ NoRecord

\* AddInstance("not a time", duration)
AddOther ==
    \E e \in DOMAIN events, d \in Durations :
        AddInstance(e, NotATime, d) /\ NoRecord

\* the run goes on past midnight
Tick == today < MaxDay /\ Midnight

Next == AddTime \/ AddDatetime \/ AddOther \/ Tick

Spec == Init /\ [][Next]_vars

----------------------------------------------------------------------------
(* SpecHistory: the same Event and calls (without durations), with the      *)
(* history of the calls recorded                                            *)

RecordedAddTime ==
    \E e \in DOMAIN events, tod \in Tods :
        /\ Len(events[e].schedule) < MaxSched
        /\ AddInstance(e, TimeOfDay(tod), None)
        /\ RecordCall(e, TimeOfDay(tod))

RecordedAddDatetime ==
    \E e \in DOMAIN events, ts \in Timestamps :
        /\ Len(events[e].schedule) < MaxSched
        /\ AddInstance(e, Datetime(ts), None)
        /\ RecordCall(e, Datetime(ts))

RecordedAddOther ==
    \E e \in DOMAIN events :
        AddInstance(e, NotATime, None) /\ RecordCall(e, NotATime)

NextHistory ==
    RecordedAddTime \/ RecordedAddDatetime \/ RecordedAddOther \/ Tick

SpecHistory == Init /\ [][NextHistory]_vars

----------------------------------------------------------------------------
(* SpecCreate: Owners and Events are constructed, in any order *)

CreateOwnerKinds == {[name |-> Str_A, rank |-> DefaultRank],
                     [name |-> Str_B, rank |-> 1]}

InitCreate ==
    /\ owners = <<>>
    /\ events = <<>>
    /\ ownerCounter = 0
    /\ colourCycle = 0
    /\ eventCounter = 0
    /\ today = 0
    /\ log = <<>>
    /\ rows = <<>>
    /\ lastAppended = <<>>
    /\ refDate = None

CreateOwner ==
    \E k \in CreateOwnerKinds :
        /\ Len(owners) < MaxCreateOwners
        /\ NewOwner(k.name, k.rank)

CreateEvent ==
    \E i \in DOMAIN owners :
        /\ Len(events) < MaxCreateEvents
        /\ NewEvent(Str_A, owners[i])

NextCreate == CreateOwner \/ CreateEvent

SpecCreate == InitCreate /\ [][NextCreate]_vars

----------------------------------------------------------------------------
(* SpecOrder, SpecRows: Event.__lt__ and PlotEvents on Events drawn from    *)
(* the ones the constructors and AddInstance build                          *)

CmpOwnerKinds == {[name |-> n, rank |-> r] :
                     n \in {Str_A, Str_AB}, r \in {1, DefaultRank}}
CmpDescriptions == {Str_A, Str_B}
CmpTimes == {0, 1}

\* the schedules two AddInstance calls build, in either order of the times
CmpSchedules ==
    {<<>>} \cup
    {ScheduleAfter(ScheduleAfter(<<>>, t, None), u, None) :
        t \in CmpTimes, u \in CmpTimes}

\* the Owners `n` constructor calls build
DrawnOwners(n) ==
    {[i \in 1 .. n |-> [id |-> i - 1, name |-> k[i].name, rank |-> k[i].rank,
                        colour |-> Palette[((i - 1) % Len(Palette)) + 1]]] :
        k \in [1 .. n -> CmpOwnerKinds]}

\* the Events `n` constructor calls on the Owners `os` build, with schedules
DrawnEvents(n, os) ==
    {[i \in 1 .. n |-> [id |-> i - 1, description |-> c[i].d,
                        owner |-> os[c[i].o], schedule |-> c[i].s]] :
        c \in [1 .. n -> [d : CmpDescriptions, o : DOMAIN os,
                          s : CmpSchedules]]}

InitDrawn(nOwners, nEvents) ==
    /\ owners \in DrawnOwners(nOwners)
    /\ events \in DrawnEvents(nEvents, owners)
    /\ ownerCounter = nOwners
    /\ colourCycle = nOwners % Len(Palette)
    /\ eventCounter = nEvents
    /\ today = 0
    /\ log = <<>>
    /\ rows = <<>>
    /\ lastAppended = [i \in 1 .. nEvents |->
                          IF events[i].schedule = <<>> THEN None
                          ELSE Some(events[i].schedule[1].start)]
    /\ refDate = None

InitOrder == InitDrawn(MaxCmpOwners, MaxCmpEvents)

NextOrder == PlotEvents

SpecOrder == InitOrder /\ [][NextOrder]_vars

InitRows == InitDrawn(MaxRowOwners, MaxRowEvents)

SpecRows == InitRows /\ [][NextOrder]_vars

----------------------------------------------------------------------------
(* Properties *)

Range(s) == {s[i] : i \in DOMAIN s}
Starts(schedule) == {schedule[i].start : i \in DOMAIN schedule}
HasStart(schedule, ts) == \E i \in DOMAIN schedule : schedule[i].start = ts
LatestStart(schedule) ==
    CHOOSE m \in Starts(schedule) : \A t \in Starts(schedule) : t <= m
EarliestStart(schedule) ==
    CHOOSE m \in Starts(schedule) : \A t \in Starts(schedule) : m <= t
Chronological(s) == \A i \in 1 .. (Len(s) - 1) : s[i].start <= s[i + 1].start
Occurrences(s, x) == Cardinality({i \in DOMAIN s : s[i] = x})
\* the values AddInstance accepts as `time`
ValidTimes ==
    {TimeOfDay(tod) : tod \in Tods} \cup {Datetime(ts) : ts \in Timestamps}
\* the timestamp AddInstance works with, given `time`, in the current state
Stamp(time) ==
    IF time.type = "time" THEN today * TicksPerDay + time.val ELSE time.val

\* C1: after any sequence of AddInstance calls (bare times, timestamps,
\* invalid values, any durations, any order) no two Instances of an Event's
\* schedule have the same start.
C1_NoDuplicateStarts ==
    \A e \in DOMAIN events :
        \A i, j \in DOMAIN events[e].schedule :
            i # j => events[e].schedule[i].start # events[e].schedule[j].start

\* C1 witness: a timestamp was submitted again to a schedule of two Instances
\* and the call logged the duplicate.
C1_Witness ==
    /\ DuplicateWarning \in Range(log)
    /\ \E e \in DOMAIN events : Len(events[e].schedule) = 2

\* C2: iterating an Event yields every stored Instance exactly once, in
\* non-decreasing order of start, and the stored schedule is in that order.
C2_ChronologicalIteration ==
    \A e \in DOMAIN events :
        LET stored == events[e].schedule
            yielded == Iter(events[e])
        IN  /\ Len(yielded) = Len(stored)
            /\ \A x \in Range(stored) :
                   Occurrences(yielded, x) = Occurrences(stored, x)
            /\ Chronological(yielded)
            /\ Chronological(stored)

\* C2 witness: an out-of-order add was stored as the third Instance.
C2_Witness ==
    /\ log = <<OutOfOrderWarning>>
    /\ \E e \in DOMAIN events :
           /\ Len(events[e].schedule) = 3
           /\ Chronological(events[e].schedule)

\* C3: AddInstance with a value that is neither a time of day nor a timestamp
\* leaves every schedule as it was and logs one record, at error level.
C3_InvalidInputIsNoOp ==
    [][\A e \in DOMAIN events, d \in Durations :
          AddInstance(e, NotATime, d) =>
              /\ events' = events
              /\ Len(log') = 1
              /\ log'[1].level = "ERROR"]_vars

\* C3 witness: the error was logged for an Event that has Instances stored.
C3_Witness ==
    /\ log = <<ScheduleTypeError>>
    /\ \E e \in DOMAIN events : Len(events[e].schedule) >= 1

\* C4: AddInstance with a timestamp that an Instance of the schedule starts
\* at leaves the schedule unchanged (Instances, order, durations, ends) and
\* logs a warning.
C4_DuplicateIsNoOp ==
    [][\A e \in DOMAIN events, t \in ValidTimes, d \in Durations :
          (HasStart(events[e].schedule, Stamp(t)) /\ AddInstance(e, t, d)) =>
              /\ events' = events
              /\ \E r \in Range(log') :
                     r.level = "WARNING" /\ r = DuplicateWarning]_vars

\* C4 witness: a duplicate was logged while the schedule holds an Instance
\* with a duration and one without.
C4_Witness ==
    /\ DuplicateWarning \in Range(log)
    /\ \E e \in DOMAIN events :
           /\ \E i \in DOMAIN events[e].schedule :
                  Truthy(events[e].schedule[i].duration)
           /\ \E i \in DOMAIN events[e].schedule :
                  events[e].schedule[i].duration = None

\* C5 as stated: an out-of-order warning is logged exactly when the schedule
\* is non-empty and the new timestamp is strictly earlier than the start of
\* the Instance appended most recently.
C5_WarnsAgainstLastAppended ==
    [][\A e \in DOMAIN events, t \in ValidTimes :
          AddInstance(e, t, None) =>
              (OutOfOrderWarning \in Range(log') <=>
                  /\ events[e].schedule # <<>>
                  /\ lastAppended[e] # None
                  /\ Stamp(t) < lastAppended[e][1])]_vars

\* C5 amended: an out-of-order warning is logged exactly when the schedule is
\* non-empty and the new timestamp is strictly earlier than the latest start
\* stored in it; when it is logged and the timestamp is not a duplicate, the
\* new Instance is stored.
C5_WarnsAgainstLatestStart ==
    [][\A e \in DOMAIN events, t \in ValidTimes :
          AddInstance(e, t, None) =>
              /\ OutOfOrderWarning \in Range(log') <=>
                     /\ events[e].schedule # <<>>
                     /\ Stamp(t) < LatestStart(events[e].schedule)
              /\ (/\ OutOfOrderWarning \in Range(log')
                  /\ ~HasStart(events[e].schedule, Stamp(t))) =>
                     /\ Len(events'[e].schedule) = Len(events[e].schedule) + 1
                     /\ \E i \in DOMAIN events'[e].schedule :
                            events'[e].schedule[i].start = Stamp(t)]_vars

\* C5 witness: a timestamp between the two stored starts was added, with a
\* warning, after the earlier of the two had been appended last.
C5_Witness ==
    /\ OutOfOrderWarning \in Range(log)
    /\ DuplicateWarning \notin Range(log)
    /\ \E e \in DOMAIN events :
           /\ Len(events[e].schedule) = 3
           /\ lastAppended[e] = Some(events[e].schedule[2].start)

\* C7 as stated: every bare time of day given to AddInstance during one run
\* is combined with the same reference date: the date a call combines its
\* bare time with is the date the bare-time call before it used.
C7_SameReferenceDate ==
    [][\A e \in DOMAIN events, tod \in Tods :
          (/\ AddInstance(e, TimeOfDay(tod), None)
           /\ RecordCall(e, TimeOfDay(tod))
           /\ refDate # None) =>
              today = refDate[1]]_vars

\* C8 as stated: every Instance created has end >= start.
C8_EndNotBeforeStart ==
    \A e \in DOMAIN events :
        \A i \in DOMAIN events[e].schedule :
            events[e].schedule[i].end >= events[e].schedule[i].start

\* C9: the n-th Owner constructed (from 0) has id n and the palette entry
\* n mod 6, whatever its name and rank and however many Events were
\* constructed in between; Events number themselves from their own counter.
C9_OwnerIdAndColourByCreationOrder ==
    /\ \A n \in DOMAIN owners :
           /\ owners[n].id = n - 1
           /\ owners[n].colour = Palette[((n - 1) % 6) + 1]
    /\ \A n \in DOMAIN events : events[n].id = n - 1
    /\ \A m, n \in DOMAIN owners : m < n => owners[m].id < owners[n].id

\* C9 witness: the seventh Owner, constructed after an Event and with a name
\* and rank other than the first Owner's, got the first colour again.
C9_Witness ==
    /\ Len(owners) = 7
    /\ Len(events) >= 1
    /\ events[1].owner.id < 6
    /\ owners[7].name # owners[1].name
    /\ owners[7].rank # owners[1].rank
    /\ owners[7].colour = owners[1].colour

----------------------------------------------------------------------------
(* Properties of Event.__lt__ and of the row order *)

\* (rank, name) order of Owners
OwnerBefore(a, b) ==
    \/ a.rank < b.rank
    \/ a.rank = b.rank /\ StrLt(a.name, b.name)

\* C6: a < b for Events: by earliest start when both have Instances and the
\* earliest starts differ; on equal earliest starts by description for the
\* same Owner and by Owner otherwise; by Owner when either has no Instance.
\* Earliest is the minimum start over the stored Instances.
C6_EventLessThan ==
    \A i, j \in DOMAIN events :
        LET a == events[i]
            b == events[j]
        IN  Less(a, b) <=>
                IF a.schedule # <<>> /\ b.schedule # <<>>
                THEN IF EarliestStart(a.schedule) # EarliestStart(b.schedule)
                     THEN EarliestStart(a.schedule) < EarliestStart(b.schedule)
                     ELSE IF a.owner.id = b.owner.id
                          THEN StrLt(a.description, b.description)
                          ELSE OwnerBefore(a.owner, b.owner)
                ELSE OwnerBefore(a.owner, b.owner)

\* C6 witness: the rows were sorted with two Events of one Owner that have
\* the same earliest start, one of them with a second, later Instance, and
\* the order between them came from the descriptions.
C6_Witness ==
    /\ Len(rows) = Len(events)
    /\ \E i, j \in DOMAIN events :
           /\ i # j
           /\ Len(events[i].schedule) = 2
           /\ Len(events[j].schedule) = 1
           /\ EarliestStart(events[i].schedule) = events[j].schedule[1].start
           /\ events[i].owner = events[j].owner
           /\ Less(events[i], events[j])

\* C10 as stated: the less-than of Events is a strict ordering of the Events
\* given to PlotEvents (irreflexive, asymmetric, transitive), and no row of
\* the sorted order comes after a row it compares less than.
C10_StrictOrderOfRows ==
    rows # <<>> =>
        /\ \A a \in Range(rows) : ~Less(a, a)
        /\ \A a, b \in Range(rows) : Less(a, b) => ~Less(b, a)
        /\ \A a, b, c \in Range(rows) : (Less(a, b) /\ Less(b, c)) => Less(a, c)
        /\ \A i, j \in DOMAIN rows : i < j => ~Less(rows[j], rows[i])

====
